---------------------------- MODULE Spec2Model ----------------------------
(***************************************************************************)
(* Triad-voicing search and selection of the guitar practice application   *)
(* (main.py, api.py): the fretboard model, the major-triad construction,   *)
(* the voicing enumerator, chain discovery across the four string groups   *)
(* and the coordinated / independent selectors.                            *)
(*                                                                         *)
(* Indices.  Python lists are 0-based, TLA+ sequences 1-based: a list      *)
(* `xs` is held as the sequence whose element i+1 is xs[i].  String        *)
(* indices, frets, pitch classes and position labels keep their Python     *)
(* values (0-based).                                                       *)
(*                                                                         *)
(* avg_fret.  The code stores avg_fret = (f1+f2+f3)/3.0, a double.  The    *)
(* model stores 3*avg_fret = f1+f2+f3, an integer, and scales every        *)
(* constant compared against it by the same factor (a span of 3 frets is   *)
(* 9).  A chain's mean sum(avg_fret)/4 is held as 12 times its value.      *)
(***************************************************************************)
EXTENDS Integers, Sequences, FiniteSets, TLC

\* ------------------------------------------------------------------------
\* Constant tables
\* ------------------------------------------------------------------------

NOTE_NAMES_SHARP ==
    <<"C", "C#", "D", "D#", "E", "F", "F#", "G", "G#", "A", "A#", "B">>

STRING_TUNING_MIDI == <<40, 45, 50, 55, 59, 64>>

\* range(21): frets 0..20
NUM_FRETS == 21

\* default of find_all_triad_voicings' max_stretch parameter
DEFAULT_MAX_STRETCH == 5

\* string_groups_data of get_triads (and of every test)
STRING_GROUPS == << <<0, 1, 2>>, <<1, 2, 3>>, <<2, 3, 4>>, <<3, 4, 5>> >>

inversion_types == <<"root", "first", "second">>

\* How far the max_stretch argument of a request may lie from the default.
StretchSlack == 3

StretchInputs ==
    (DEFAULT_MAX_STRETCH - StretchSlack)..(DEFAULT_MAX_STRETCH + StretchSlack)

\* ------------------------------------------------------------------------
\* Python built-ins used by the code
\* ------------------------------------------------------------------------

PyMin(a, b) == IF a <= b THEN a ELSE b

PyMax(a, b) == IF a >= b THEN a ELSE b

\* list(seq-of-lists) concatenated in order: what repeated .append inside
\* nested for-loops accumulates, one inner sequence per loop iteration.
RECURSIVE Flatten(_)
Flatten(ss) == IF ss = <<>> THEN <<>> ELSE Head(ss) \o Flatten(Tail(ss))

\* set(list)
ToSet(s) == {s[i] : i \in 1..Len(s)}

\* round(k / 4) for an integer k >= 0: k/4 is exact in a double and
\* Python 3 rounds halves to the even neighbour.
PyRoundQuarter(k) ==
    LET q == k \div 4
        r == k % 4
    IN  IF r < 2 THEN q
        ELSE IF r > 2 THEN q + 1
        ELSE IF q % 2 = 0 THEN q ELSE q + 1

\* ------------------------------------------------------------------------
\* Pitch / key utilities and the fretboard
\* ------------------------------------------------------------------------

\* name_to_pc returning the 1-based list position.
name_to_pc_one_based(name) == CHOOSE i \in 1..12 : NOTE_NAMES_SHARP[i] = name

\* NOTE_NAMES_SHARP.index(name)
name_to_pc(name) == (CHOOSE i \in 1..12 : NOTE_NAMES_SHARP[i] = name) - 1

pc_to_sharp_name(pc) == NOTE_NAMES_SHARP[(pc % 12) + 1]

midi_to_pc(midi_note) == midi_note % 12

build_fretboard ==
    [string_idx \in 0..5 |->
        [fret \in 0..(NUM_FRETS - 1) |->
            midi_to_pc(STRING_TUNING_MIDI[string_idx + 1] + fret)]]

\* ------------------------------------------------------------------------
\* Position finder
\* ------------------------------------------------------------------------

STRING_NAMES == <<"E", "A", "D", "G", "B", "E">>

PyAbs(x) == IF x < 0 THEN -x ELSE x

\* Python's tuple `<=` on equal-length integer tuples.
RECURSIVE tuple_le(_, _)
tuple_le(a, b) ==
    IF a = <<>> THEN TRUE
    ELSE IF Head(a) # Head(b) THEN Head(a) < Head(b)
    ELSE tuple_le(Tail(a), Tail(b))

\* candidate_key with fret compared before string_idx.
candidate_key_fret_first(x) == <<x[1], x[2], x[3]>>

\* key=lambda x: (x[0], x[2], x[1]) on (distance, fret, string_idx)
candidate_key(x) == <<x[1], x[3], x[2]>>

\* candidates.sort(key=...): ascending and stable.
RECURSIVE sort_candidates(_)
sort_candidates(s) ==
    IF Len(s) <= 1 THEN s
    ELSE LET front == sort_candidates(SubSeq(s, 1, Len(s) - 1))
             x     == s[Len(s)]
             keep  == {i \in 1..Len(front) :
                        tuple_le(candidate_key(front[i]), candidate_key(x))}
             k     == Cardinality(keep)
         IN  SubSeq(front, 1, k) \o <<x>> \o SubSeq(front, k + 1, Len(front))

\* Returns (string_idx, open_string_name, fret), or raises ValueError
\* when no (string, fret) of the fretboard holds the note's pitch class.
find_best_position(note, target_fret, fretboard) ==
    LET target_pc == name_to_pc(note)
        on_string(string_idx) ==
            [i \in 1..NUM_FRETS |->
                LET fret == i - 1
                    distance == PyAbs(fret - target_fret)
                IN  IF fretboard[string_idx][fret] = target_pc
                    THEN << <<distance, fret, string_idx>> >>
                    ELSE <<>>]
        candidates ==
            Flatten([i \in 1..6 |-> Flatten(on_string(i - 1))])
        best == sort_candidates(candidates)[1]
    IN  IF candidates = <<>> THEN [raises |-> "ValueError"]
        ELSE [string_idx        |-> best[3],
              open_string_name  |-> STRING_NAMES[best[3] + 1],
              fret              |-> best[2]]

\* ------------------------------------------------------------------------
\* Modes and the 3NPS XYZ pattern
\* ------------------------------------------------------------------------

MODES ==
    <<"Ionian", "Dorian", "Phrygian", "Lydian", "Mixolydian", "Aeolian",
      "Locrian">>

XYZ_BASE == <<"X", "X", "X", "Y", "Y", "Z", "Z">>

MODE_TO_START ==
    [Ionian |-> 1, Dorian |-> 6, Phrygian |-> 4, Lydian |-> 2,
     Mixolydian |-> 0, Aeolian |-> 5, Locrian |-> 3]

WINDOW_LEN == 6

MODE_OFFSETS ==
    [Ionian |-> 0, Dorian |-> 2, Phrygian |-> 4, Lydian |-> 5,
     Mixolydian |-> 7, Aeolian |-> 9, Locrian |-> 11]

\* parent_major adding the offset instead of subtracting it.
parent_major_up(mode, tonic) ==
    pc_to_sharp_name((name_to_pc(tonic) + MODE_OFFSETS[mode]) % 12)

parent_major(mode, tonic) ==
    LET tonic_pc  == name_to_pc(tonic)
        offset    == MODE_OFFSETS[mode]
        parent_pc == (tonic_pc - offset) % 12
    IN  pc_to_sharp_name(parent_pc)

\* xyz_window_for_mode wrapping at the window length instead of the base's.
xyz_window_for_mode_short_wrap(mode) ==
    [k \in 1..WINDOW_LEN |->
        XYZ_BASE[((MODE_TO_START[mode] + (k - 1)) % 6) + 1]]

\* [XYZ_BASE[(start + i) % 7] for i in range(WINDOW_LEN)]
xyz_window_for_mode(mode) ==
    LET start == MODE_TO_START[mode]
    IN  [k \in 1..WINDOW_LEN |-> XYZ_BASE[((start + (k - 1)) % 7) + 1]]

\* backward_shift testing the symbols in walking order (X on the string
\* left behind, Y on the string reached).
backward_shift_unreversed(symbols, i) ==
    (IF symbols[i + 2] = "X" /\ symbols[i + 1] = "Y" THEN 1 ELSE 0)
        + (IF i = 3 /\ (i + 1) = 4 THEN 1 ELSE 0)

\* What the backward loop adds on reaching string i from string i+1:
\* +1 when prev_symbol (string i+1) is Y and curr_symbol (string i) is X,
\* +1 when i = 3 (B back to G).
backward_shift(symbols, i) ==
    (IF symbols[i + 2] = "Y" /\ symbols[i + 1] = "X" THEN 1 ELSE 0)
        + (IF i = 3 /\ (i + 1) = 4 THEN 1 ELSE 0)

\* What the forward loop subtracts on reaching string i from string i-1:
\* 1 when prev_symbol (string i-1) is X and curr_symbol (string i) is Y,
\* 1 when i - 1 = 3 (G to B).
forward_shift(symbols, i) ==
    (IF symbols[i] = "X" /\ symbols[i + 1] = "Y" THEN 1 ELSE 0)
        + (IF (i - 1) = 3 /\ i = 4 THEN 1 ELSE 0)

\* Returns [(string_idx, fret, symbol)] for strings 0..5.
plan_xyz_positions(mode, start_string_idx, start_fret) ==
    LET symbols == xyz_window_for_mode(mode)
        frets[i \in 0..5] ==
            IF i = start_string_idx THEN start_fret
            ELSE IF i < start_string_idx
                 THEN frets[i + 1] + backward_shift(symbols, i)
                 ELSE frets[i - 1] - forward_shift(symbols, i)
    IN  [k \in 1..6 |-> <<k - 1, frets[k - 1], symbols[k]>>]

\* ------------------------------------------------------------------------
\* Triads
\* ------------------------------------------------------------------------

build_major_triad(root_name) ==
    LET root_pc  == name_to_pc(root_name)
        third_pc == (root_pc + 4) % 12
        fifth_pc == (root_pc + 7) % 12
    IN  <<root_pc, third_pc, fifth_pc>>

\* identify_inversion classifying by the note on the highest string.
identify_inversion_by_highest(notes, triad_pcs) ==
    LET highest_note == notes[3]
    IN  IF highest_note = triad_pcs[1] THEN "root"
        ELSE IF highest_note = triad_pcs[2] THEN "first"
        ELSE IF highest_note = triad_pcs[3] THEN "second"
        ELSE "unknown"

identify_inversion(notes, triad_pcs) ==
    LET lowest_note == notes[1]
    IN  IF lowest_note = triad_pcs[1] THEN "root"
        ELSE IF lowest_note = triad_pcs[2] THEN "first"
        ELSE IF lowest_note = triad_pcs[3] THEN "second"
        ELSE "unknown"

\* ------------------------------------------------------------------------
\* Triad voicing enumerator
\* ------------------------------------------------------------------------

\* all_notes_present with the equality weakened to containment: a voicing
\* that doubles one triad tone and omits another is kept.
all_notes_present_subset(notes, triad_set) == ToSet(notes) \subseteq triad_set

\* "Check that all three unique triad notes are present":
\* the voicing is kept only if set(notes) == triad_set.
all_notes_present(notes, triad_set) == ToSet(notes) = triad_set

\* within_stretch rejecting a span equal to max_stretch (>= for >).
within_stretch_strict(fret1, fret2, fret3, max_stretch) ==
    LET min_fret == PyMin(PyMin(fret1, fret2), fret3)
        max_fret == PyMax(PyMax(fret1, fret2), fret3)
    IN  ~(max_fret - min_fret >= max_stretch)

\* "Check fret stretch constraint": the voicing is kept only if
\* NOT (max_fret - min_fret > max_stretch).
within_stretch(fret1, fret2, fret3, max_stretch) ==
    LET min_fret == PyMin(PyMin(fret1, fret2), fret3)
        max_fret == PyMax(PyMax(fret1, fret2), fret3)
    IN  ~(max_fret - min_fret > max_stretch)

\* The dict appended for a valid triple.  avg_fret holds 3 * avg_fret.
make_voicing(triad_pcs, string_group, fret1, fret2, fret3, notes) ==
    [strings    |-> string_group,
     frets      |-> <<fret1, fret2, fret3>>,
     notes      |-> notes,
     note_names |-> [i \in 1..3 |-> pc_to_sharp_name(notes[i])],
     inversion  |-> identify_inversion(notes, triad_pcs),
     avg_fret   |-> fret1 + fret2 + fret3]

\* The three nested loops over range(21); a `continue` contributes the
\* empty list, a valid triple the one-element list, in loop order.
find_all_triad_voicings(triad_pcs, string_group, fretboard, max_stretch) ==
    LET triad_set == ToSet(triad_pcs)
        high(fret1, note1, fret2, note2) ==
            [i3 \in 1..NUM_FRETS |->
                LET fret3 == i3 - 1
                    note3 == fretboard[string_group[3]][fret3]
                    notes == <<note1, note2, note3>>
                IN  IF note3 \notin triad_set THEN <<>>
                    ELSE IF ~all_notes_present(notes, triad_set) THEN <<>>
                    ELSE IF ~within_stretch(fret1, fret2, fret3, max_stretch)
                         THEN <<>>
                    ELSE <<make_voicing(triad_pcs, string_group,
                                        fret1, fret2, fret3, notes)>>]
        mid(fret1, note1) ==
            [i2 \in 1..NUM_FRETS |->
                LET fret2 == i2 - 1
                    note2 == fretboard[string_group[2]][fret2]
                IN  IF note2 \notin triad_set THEN <<>>
                    ELSE Flatten(high(fret1, note1, fret2, note2))]
        low ==
            [i1 \in 1..NUM_FRETS |->
                LET fret1 == i1 - 1
                    note1 == fretboard[string_group[1]][fret1]
                IN  IF note1 \notin triad_set THEN <<>>
                    ELSE Flatten(mid(fret1, note1))]
    IN  Flatten(low)

\* ------------------------------------------------------------------------
\* Chain discovery
\* ------------------------------------------------------------------------

\* voicings_share_notes comparing pitch classes only, not frets.
voicings_share_notes_only(v1, v2) ==
    SubSeq(v1.notes, 2, 3) = SubSeq(v2.notes, 1, 2)

\* voicings_share_notes with the fret slice of one string only ([2:3]).
voicings_share_one_fret(v1, v2) ==
    /\ SubSeq(v1.notes, 2, 3) = SubSeq(v2.notes, 1, 2)
    /\ SubSeq(v1.frets, 3, 3) = SubSeq(v2.frets, 2, 2)

\* voicings_share_notes comparing the fret slices [0:2] of both voicings.
voicings_share_front_frets(v1, v2) ==
    /\ SubSeq(v1.notes, 2, 3) = SubSeq(v2.notes, 1, 2)
    /\ SubSeq(v1.frets, 1, 2) = SubSeq(v2.frets, 1, 2)

\* v1["notes"][1:3] == v2["notes"][0:2] and v1["frets"][1:3] == v2["frets"][0:2]
voicings_share_notes(v1, v2) ==
    /\ SubSeq(v1.notes, 2, 3) = SubSeq(v2.notes, 1, 2)
    /\ SubSeq(v1.frets, 2, 3) = SubSeq(v2.frets, 1, 2)

\* Four nested loops, each guarded by `if not voicings_share_notes: continue`.
find_voicing_chains(all_group_voicings) ==
    LET g0 == all_group_voicings[1]
        g1 == all_group_voicings[2]
        g2 == all_group_voicings[3]
        g3 == all_group_voicings[4]
        from2(v0, v1, v2) ==
            [i3 \in 1..Len(g3) |->
                IF ~voicings_share_notes(v2, g3[i3]) THEN <<>>
                ELSE << <<v0, v1, v2, g3[i3]>> >>]
        from1(v0, v1) ==
            [i2 \in 1..Len(g2) |->
                IF ~voicings_share_notes(v1, g2[i2]) THEN <<>>
                ELSE Flatten(from2(v0, v1, g2[i2]))]
        from0(v0) ==
            [i1 \in 1..Len(g1) |->
                IF ~voicings_share_notes(v0, g1[i1]) THEN <<>>
                ELSE Flatten(from1(v0, g1[i1]))]
    IN  Flatten([i0 \in 1..Len(g0) |-> Flatten(from0(g0[i0]))])

\* ------------------------------------------------------------------------
\* Selection
\* ------------------------------------------------------------------------

\* list.sort(key=lambda x: x[0]) on (key, item) tuples: ascending and
\* stable, an element is placed after every earlier element whose key is
\* <= its own.
RECURSIVE sort_pairs(_)
sort_pairs(s) ==
    IF Len(s) <= 1 THEN s
    ELSE LET front == sort_pairs(SubSeq(s, 1, Len(s) - 1))
             x     == s[Len(s)]
             keep  == {i \in 1..Len(front) : front[i][1] <= x[1]}
             k     == Cardinality(keep)
         IN  SubSeq(front, 1, k) \o <<x>> \o SubSeq(front, k + 1, Len(front))

\* sorted(voicings, key=lambda v: v["avg_fret"])
sort_by_avg_fret(voicings) ==
    LET sorted == sort_pairs([i \in 1..Len(voicings) |->
                                <<voicings[i].avg_fret, voicings[i]>>])
    IN  [i \in 1..Len(voicings) |-> sorted[i][2]]

\* with_position numbering the labels from 1.
with_position_from_one(voicing, position) ==
    [position |-> position + 1] @@ voicing

\* voicing.copy(); copy["position"] = position
with_position(voicing, position) == [position |-> position] @@ voicing

\* inv for inv in inversion_types if inv != paired
other_inversions_of(paired) ==
    SelectSeq(inversion_types, LAMBDA inv : inv # paired)

\* pos1_index taking the middle of the bucket (len // 2).
pos1_index_half(len) == PyMin(len - 1, len \div 2)

\* idx = min(len(inv1) - 1, len(inv1) // 3)
pos1_index(len) == PyMin(len - 1, len \div 3)

\* pos2_index taking the middle of the bucket (len // 2).
pos2_index_half(len) == PyMax(0, len \div 2)

\* idx = max(0, len(inv2) * 2 // 3)
pos2_index(len) == PyMax(0, (len * 2) \div 3)

\* Independent per-group selector.  Spans are 3 * (avg_fret difference).
select_4_positions(voicings) ==
    IF voicings = <<>> THEN <<>>
    ELSE
    LET sorted_voicings == sort_by_avg_fret(voicings)
        n == Len(sorted_voicings)
        by_inversion ==
            [inv_type \in ToSet(inversion_types) |->
                SelectSeq(sorted_voicings, LAMBDA v : v.inversion = inv_type)]
        \* one iteration of `for inv_type in inversion_types`
        step(best, inv_type) ==
            LET inv_voicings == by_inversion[inv_type]
                span == inv_voicings[Len(inv_voicings)].avg_fret
                            - inv_voicings[1].avg_fret
            IN  IF Len(inv_voicings) >= 2 /\ span > best.span
                THEN [inv |-> inv_type, span |-> span]
                ELSE best
        best == step(step(step([inv |-> "None", span |-> 0],
                               inversion_types[1]),
                          inversion_types[2]),
                     inversion_types[3])
        indices == <<0,
                     PyRoundQuarter(n - 1),
                     PyRoundQuarter(2 * (n - 1)),
                     PyRoundQuarter(3 * (n - 1))>>
        other_inversions == other_inversions_of(best.inv)
        paired_voicings == by_inversion[best.inv]
        inv1_voicings == by_inversion[other_inversions[1]]
        inv2_voicings == by_inversion[other_inversions[2]]
    IN  IF n <= 4
        THEN [i \in 1..n |-> with_position(sorted_voicings[i], i - 1)]
        ELSE IF best.inv = "None" \/ best.span < 3 * 3
        THEN [i \in 1..4 |->
                with_position(sorted_voicings[indices[i] + 1], i - 1)]
        ELSE
            (IF paired_voicings # <<>>
             THEN <<with_position(paired_voicings[1], 0)>> ELSE <<>>)
         \o (IF inv1_voicings # <<>>
             THEN <<with_position(
                      inv1_voicings[pos1_index(Len(inv1_voicings)) + 1], 1)>>
             ELSE <<>>)
         \o (IF Len(other_inversions) > 1 /\ inv2_voicings # <<>>
             THEN <<with_position(
                      inv2_voicings[pos2_index(Len(inv2_voicings)) + 1], 2)>>
             ELSE <<>>)
         \o (IF paired_voicings # <<>>
             THEN <<with_position(
                      paired_voicings[Len(paired_voicings)], 3)>>
             ELSE <<>>)

\* avg_fret = sum(v["avg_fret"] for v in chain) / 4, held as 12 times it.
chain_avg_fret(chain) ==
    chain[1].avg_fret + chain[2].avg_fret
        + chain[3].avg_fret + chain[4].avg_fret

\* find_pos3_index without the inversion test: the highest chain of all.
find_pos3_index_any(all_chains_sorted, paired_inv) == Len(all_chains_sorted)

\* find_pos3_index scanning all_chains_sorted forwards, not reversed.
find_pos3_index_forward(all_chains_sorted, paired_inv) ==
    LET matching == {i \in 1..Len(all_chains_sorted) :
                        all_chains_sorted[i][2][1].inversion = paired_inv}
    IN  IF matching = {} THEN 0
        ELSE CHOOSE i \in matching : \A j \in matching : i <= j

\* find_pos3_index with the `break` outside the `if`: only the highest
\* chain is looked at.
find_pos3_index_top_only(all_chains_sorted, paired_inv) ==
    LET top == Len(all_chains_sorted)
    IN  IF all_chains_sorted[top][2][1].inversion = paired_inv
        THEN top ELSE 0

\* for avg_fret, chain in reversed(all_chains_sorted):
\*     if chain[0]["inversion"] == paired_inv: pos3_chain = chain; break
\* The index of the chain found, 0 for None.
find_pos3_index(all_chains_sorted, paired_inv) ==
    LET matching == {i \in 1..Len(all_chains_sorted) :
                        all_chains_sorted[i][2][1].inversion = paired_inv}
    IN  IF matching = {} THEN 0
        ELSE CHOOSE i \in matching : \A j \in matching : j <= i

\* The chains picked for positions 0..3, <<>> when pos3_chain is None.
\* Entries are the code's (avg_fret, chain) tuples.
select_chains(chains) ==
    LET entries == [i \in 1..Len(chains) |->
                        <<chain_avg_fret(chains[i]), chains[i]>>]
        patterns == {chains[i][1].inversion : i \in 1..Len(chains)}
        chains_by_pattern ==
            [inv \in patterns |->
                sort_pairs(
                    SelectSeq(entries, LAMBDA e : e[2][1].inversion = inv))]
        \* `avg_fret` in the comprehension is the variable the loop above
        \* left behind: the mean of the last chain, the same for every tuple.
        avg_fret == entries[Len(chains)][1]
        all_chains_sorted ==
            sort_pairs([i \in 1..Len(chains) |-> <<avg_fret, chains[i]>>])
        pos0_chain == all_chains_sorted[1][2]
        paired_inv == pos0_chain[1].inversion
        pos3_index == find_pos3_index(all_chains_sorted, paired_inv)
        other_invs == other_inversions_of(paired_inv)
    IN  IF pos3_index = 0 THEN <<>>
        ELSE
            <<pos0_chain>>
         \o (IF other_invs[1] \in DOMAIN chains_by_pattern
                /\ chains_by_pattern[other_invs[1]] # <<>>
             THEN LET inv1_chains == chains_by_pattern[other_invs[1]]
                  IN  <<inv1_chains[pos1_index(Len(inv1_chains)) + 1][2]>>
             ELSE <<>>)
         \o (IF Len(other_invs) > 1
                /\ other_invs[2] \in DOMAIN chains_by_pattern
                /\ chains_by_pattern[other_invs[2]] # <<>>
             THEN LET inv2_chains == chains_by_pattern[other_invs[2]]
                  IN  <<inv2_chains[pos2_index(Len(inv2_chains)) + 1][2]>>
             ELSE <<>>)
         \o <<all_chains_sorted[pos3_index][2]>>

\* chains_to_groups walking the selected chains from the last to the first.
chains_to_groups_reversed(selected_chains) ==
    [group_idx \in 1..4 |->
        [p \in 1..Len(selected_chains) |->
            with_position(
                selected_chains[Len(selected_chains) + 1 - p][group_idx],
                p - 1)]]

\* chains_to_groups numbering the positions from 1 (enumerate(..., 1)).
chains_to_groups_from_one(selected_chains) ==
    [group_idx \in 1..4 |->
        [p \in 1..Len(selected_chains) |->
            with_position(selected_chains[p][group_idx], p)]]

\* "Convert chains to grouped format": result[group_idx] receives, for each
\* selected chain in order, a copy of its group_idx-th voicing tagged with
\* the chain's index.
chains_to_groups(selected_chains) ==
    [group_idx \in 1..4 |->
        [p \in 1..Len(selected_chains) |->
            with_position(selected_chains[p][group_idx], p - 1)]]

select_4_positions_coordinated(all_group_voicings, triad_pcs) ==
    LET chains == find_voicing_chains(all_group_voicings)
        independent ==
            [g \in 1..Len(all_group_voicings) |->
                select_4_positions(all_group_voicings[g])]
    IN  IF Len(chains) < 4 THEN independent
        ELSE LET selected_chains == select_chains(chains)
             IN  IF selected_chains = <<>> THEN independent
                 ELSE chains_to_groups(selected_chains)

\* voicing_copy["position"] = position written through to the caller's
\* voicing (no copy made).
voicing_tagged_in_place(voicing, position) == with_position(voicing, position)

\* The caller's voicing after `voicing_copy = voicing.copy()` and
\* `voicing_copy["position"] = position`: the key is set on the copy, the
\* original dict is left as it was.
voicing_after_tag(voicing, position) == voicing

\* The caller's list of one group after a selector returned `result` for
\* it.  sorted() builds a new list, the chain search only reads, and the
\* voicings that were picked went through the tagging above.
input_after_selection(voicings, result) ==
    [i \in 1..Len(voicings) |->
        LET tags == {j \in 1..Len(result) :
                        with_position(voicings[i], result[j].position)
                            = result[j]}
        IN  IF tags = {} THEN voicings[i]
            ELSE voicing_after_tag(voicings[i],
                                   result[CHOOSE j \in tags : TRUE].position)]

\* ------------------------------------------------------------------------
\* The triads request: get_triads of api.py and the tests' driver code call
\* build_major_triad, then find_all_triad_voicings once per string group,
\* then select_4_positions_coordinated.
\* ------------------------------------------------------------------------

VARIABLES
    pc,                  \* where the request stands
    fretboard,           \* build_fretboard(), built once
    key,                 \* the requested root note name
    max_stretch,         \* the max_stretch the enumerator is called with
    triad_pcs,           \* build_major_triad(key)
    all_group_voicings,  \* the enumerator's lists gathered so far
    chains,              \* find_voicing_chains(all_group_voicings)
    selected,            \* the selector's result
    note,                \* the challenge's note name
    target_fret,         \* the challenge's target fret
    position,            \* what find_best_position returned or raised
    mode,                \* the challenge's mode
    parent_key,          \* parent_major(mode, note)
    plan_start,          \* (start_string_idx, start_fret) of the last plan
    xyz_layout,          \* plan_xyz_positions(mode, ...) of the last plan
    show_key,            \* the practice session's three display flags
    show_position,
    show_shape,
    last_input           \* what the session's last input() call produced

triad_vars == <<key, max_stretch, triad_pcs, all_group_voicings,
                chains, selected>>

answer_vars == <<note, target_fret, position, mode, parent_key,
                 plan_start, xyz_layout>>

session_vars == <<show_key, show_position, show_shape, last_input>>

vars == <<pc, fretboard, triad_vars, answer_vars, session_vars>>

\* No request has been made yet.
NoTriads ==
    /\ key = "C"
    /\ max_stretch = DEFAULT_MAX_STRETCH
    /\ triad_pcs = <<>>
    /\ all_group_voicings = <<>>
    /\ chains = <<>>
    /\ selected = <<>>

\* No challenge has been made yet.
NoChallenge ==
    /\ note = "C"
    /\ target_fret = 0
    /\ position = <<>>
    /\ mode = "Ionian"
    /\ parent_key = "C"
    /\ plan_start = <<>>
    /\ xyz_layout = <<>>

\* No practice session has been started yet.
NoSession ==
    /\ show_key = FALSE
    /\ show_position = FALSE
    /\ show_shape = FALSE
    /\ last_input = [kind |-> "none"]

Init ==
    /\ pc = "idle"
    /\ fretboard = build_fretboard
    /\ NoTriads
    /\ NoChallenge
    /\ NoSession

\* Key strings a request may carry: the 12 sharp names and two spellings
\* that are not in NOTE_NAMES_SHARP.
KeyInputs == ToSet(NOTE_NAMES_SHARP) \cup {"Db", "H"}

\* `if key not in NOTE_NAMES_SHARP: return {"error": ...}`
RejectInvalidKey ==
    /\ pc = "idle"
    /\ \E k \in KeyInputs :
        /\ k \notin ToSet(NOTE_NAMES_SHARP)
        /\ key' = k
    /\ max_stretch' = DEFAULT_MAX_STRETCH
    /\ triad_pcs' = <<>>
    /\ all_group_voicings' = <<>>
    /\ chains' = <<>>
    /\ selected' = <<>>
    /\ pc' = "rejected"
    /\ UNCHANGED <<fretboard, answer_vars, session_vars>>

\* A request arrives for a valid key: triad_pcs = build_major_triad(key).
\* get_triads always enumerates with the default max_stretch; a direct
\* caller of find_all_triad_voicings may pass any of StretchInputs.
BuildMajorTriad ==
    /\ pc = "idle"
    /\ \E k \in KeyInputs, ms \in StretchInputs :
        /\ k \in ToSet(NOTE_NAMES_SHARP)
        /\ key' = k
        /\ max_stretch' = ms
        /\ triad_pcs' = build_major_triad(k)
    /\ all_group_voicings' = <<>>
    /\ chains' = <<>>
    /\ selected' = <<>>
    /\ pc' = "enumerate"
    /\ UNCHANGED <<fretboard, answer_vars, session_vars>>

\* One iteration of `for sg in string_groups`: the next group's voicings
\* are appended to all_group_voicings.
FindAllTriadVoicings ==
    /\ pc = "enumerate"
    /\ LET sg == STRING_GROUPS[Len(all_group_voicings) + 1]
       IN  all_group_voicings' =
               Append(all_group_voicings,
                      find_all_triad_voicings(triad_pcs, sg, fretboard,
                                              max_stretch))
    /\ pc' = IF Len(all_group_voicings) + 1 = Len(STRING_GROUPS)
             THEN "select" ELSE "enumerate"
    /\ UNCHANGED <<fretboard, key, max_stretch, triad_pcs, chains, selected,
                   answer_vars, session_vars>>

\* selected = select_4_positions_coordinated(all_group_voicings, triad_pcs);
\* chains is the list its first statement computes.  The caller's lists
\* are what the call leaves of them.
SelectCoordinated ==
    /\ pc = "select"
    /\ LET result ==
            select_4_positions_coordinated(all_group_voicings, triad_pcs)
       IN  /\ selected' = result
           /\ all_group_voicings' =
                [g \in 1..Len(all_group_voicings) |->
                    input_after_selection(all_group_voicings[g], result[g])]
    /\ chains' = find_voicing_chains(all_group_voicings)
    /\ pc' = "done"
    /\ UNCHANGED <<fretboard, key, max_stretch, triad_pcs, answer_vars,
                   session_vars>>

\* The tests' driver: selected = select_4_positions(all_voicings), here for
\* each of the four enumerated lists; no chains are computed.
SelectIndependent ==
    /\ pc = "select"
    /\ LET result ==
            [g \in 1..Len(all_group_voicings) |->
                select_4_positions(all_group_voicings[g])]
       IN  /\ selected' = result
           /\ all_group_voicings' =
                [g \in 1..Len(all_group_voicings) |->
                    input_after_selection(all_group_voicings[g], result[g])]
    /\ chains' = <<>>
    /\ pc' = "done_independent"
    /\ UNCHANGED <<fretboard, key, max_stretch, triad_pcs, answer_vars,
                   session_vars>>

\* The response (or the error) is returned; the next request recomputes
\* everything but the fretboard.
Respond ==
    /\ pc \in {"done", "done_independent", "rejected"}
    /\ pc' = "idle"
    /\ UNCHANGED <<fretboard, triad_vars, answer_vars, session_vars>>

Next ==
    \/ RejectInvalidKey
    \/ BuildMajorTriad
    \/ FindAllTriadVoicings
    \/ SelectCoordinated
    \/ SelectIndependent
    \/ Respond

Spec == Init /\ [][Next]_vars

\* ------------------------------------------------------------------------
\* The challenge: generate_challenge draws a note and a target fret,
\* get_answer (and the CLI's display) calls find_best_position on them.
\* ------------------------------------------------------------------------

MaxTargetFret == 24

\* random.randint(1, 12) in the generators; a posted challenge or a direct
\* caller may carry any fret number.
TargetFretInputs == 0..MaxTargetFret

\* A board of the same 6 x 21 shape on which only the open strings and the
\* first fret sound; the other slots hold no pitch class (-1 stands for
\* None).  Pitch classes 1 and 6 are on none of its slots.
muted_fretboard ==
    [string_idx \in 0..5 |->
        [fret \in 0..(NUM_FRETS - 1) |->
            IF fret <= 1 THEN build_fretboard[string_idx][fret] ELSE -1]]

\* find_best_position takes the fretboard as a parameter.
FretboardInputs == {build_fretboard, muted_fretboard}

InitAnswer ==
    /\ pc = "idle"
    /\ fretboard \in FretboardInputs
    /\ NoTriads
    /\ NoChallenge
    /\ NoSession

\* mode = random.choice(MODES), note = random.choice(NOTE_NAMES_SHARP),
\* target_fret from TargetFretInputs.
GenerateChallenge ==
    /\ pc = "idle"
    /\ mode' \in ToSet(MODES)
    /\ note' \in ToSet(NOTE_NAMES_SHARP)
    /\ target_fret' \in TargetFretInputs
    /\ position' = <<>>
    /\ pc' = "challenge"
    /\ UNCHANGED <<fretboard, triad_vars, parent_key, plan_start, xyz_layout,
                   session_vars>>

\* get_answer: find_best_position(note, target_fret, fretboard), then
\* parent_major(mode, note) and plan_xyz_positions(mode, string_idx,
\* best_fret).  A ValueError leaves the challenge without an answer.
FindBestPosition ==
    /\ pc = "challenge"
    /\ LET best == find_best_position(note, target_fret, fretboard)
       IN  /\ position' = best
           /\ IF "raises" \in DOMAIN best
              THEN /\ pc' = "note_not_found"
                   /\ UNCHANGED <<parent_key, plan_start, xyz_layout>>
              ELSE /\ pc' = "answered"
                   /\ parent_key' = parent_major(mode, note)
                   /\ plan_start' = <<best.string_idx, best.fret>>
                   /\ xyz_layout' =
                        plan_xyz_positions(mode, best.string_idx, best.fret)
    /\ UNCHANGED <<fretboard, triad_vars, note, target_fret, mode,
                   session_vars>>

\* A direct call plan_xyz_positions(mode, start_string_idx, start_fret) for
\* any string and any start fret.
PlanXyzPositions ==
    /\ pc = "idle"
    /\ \E m \in ToSet(MODES), start_string_idx \in 0..5,
          start_fret \in TargetFretInputs :
        /\ mode' = m
        /\ plan_start' = <<start_string_idx, start_fret>>
        /\ xyz_layout' = plan_xyz_positions(m, start_string_idx, start_fret)
    /\ pc' = "planned"
    /\ UNCHANGED <<fretboard, triad_vars, note, target_fret, position,
                   parent_key, session_vars>>

\* The answer (or the error) has been delivered; its locals are gone.
ReturnAnswer ==
    /\ pc \in {"answered", "note_not_found", "planned"}
    /\ pc' = "idle"
    /\ note' = "C"
    /\ target_fret' = 0
    /\ position' = <<>>
    /\ mode' = "Ionian"
    /\ parent_key' = "C"
    /\ plan_start' = <<>>
    /\ xyz_layout' = <<>>
    /\ UNCHANGED <<fretboard, triad_vars, session_vars>>

NextAnswer ==
    \/ GenerateChallenge
    \/ FindBestPosition
    \/ PlanXyzPositions
    \/ ReturnAnswer

SpecAnswer == InitAnswer /\ [][NextAnswer]_vars

\* ------------------------------------------------------------------------
\* The independent selector on other boards: find_all_triad_voicings takes
\* the fretboard as a parameter, and select_4_positions is then applied to
\* lists that need not span the whole neck.
\* ------------------------------------------------------------------------

\* A board of the same 6 x 21 shape whose slots above fret 11 hold no pitch
\* class (-1 stands for None).
short_fretboard ==
    [string_idx \in 0..5 |->
        [fret \in 0..(NUM_FRETS - 1) |->
            IF fret <= 11 THEN build_fretboard[string_idx][fret] ELSE -1]]

SelectorFretboardInputs == {build_fretboard, short_fretboard}

InitSelector ==
    /\ pc = "idle"
    /\ fretboard \in SelectorFretboardInputs
    /\ NoTriads
    /\ NoChallenge
    /\ NoSession

NextSelector ==
    \/ BuildMajorTriad
    \/ FindAllTriadVoicings
    \/ SelectIndependent
    \/ Respond

SpecSelector == InitSelector /\ [][NextSelector]_vars

\* ------------------------------------------------------------------------
\* The practice session of the command-line program (main.py)
\* ------------------------------------------------------------------------

\* Lines are sequences of one-character strings.
UPPER_CHARS ==
    <<"A", "B", "C", "D", "E", "F", "G", "H", "I", "J", "K", "L", "M",
      "N", "O", "P", "Q", "R", "S", "T", "U", "V", "W", "X", "Y", "Z">>

LOWER_CHARS ==
    <<"a", "b", "c", "d", "e", "f", "g", "h", "i", "j", "k", "l", "m",
      "n", "o", "p", "q", "r", "s", "t", "u", "v", "w", "x", "y", "z">>

WHITESPACE == {" ", "\t"}

\* str.strip(): leading and trailing whitespace removed.
str_strip(line) ==
    LET kept == {i \in 1..Len(line) : line[i] \notin WHITESPACE}
    IN  IF kept = {} THEN <<>>
        ELSE SubSeq(line,
                    CHOOSE i \in kept : \A j \in kept : i <= j,
                    CHOOSE i \in kept : \A j \in kept : j <= i)

\* str.lower(): every upper-case letter replaced by its lower-case one.
str_lower(line) ==
    [i \in 1..Len(line) |->
        IF \E u \in 1..Len(UPPER_CHARS) : UPPER_CHARS[u] = line[i]
        THEN LOWER_CHARS[CHOOSE u \in 1..Len(UPPER_CHARS) :
                            UPPER_CHARS[u] = line[i]]
        ELSE line[i]]

\* response = input("\nYour choice: ").strip().lower()
response_of(line) == str_lower(str_strip(line))

\* new_state = not (show_key or show_position or show_shape)
all_new_state_any(k, p, s) == ~(k \/ p \/ s)

\* new_state = not (show_key and show_position and show_shape)
all_new_state(k, p, s) == ~(k /\ p /\ s)

\* Lines typed at the prompts.
LineInputs ==
    { <<"k">>, <<"p">>, <<"s">>, <<"a">>, <<>>, <<"n">>,
      <<"n", "e", "x", "t">>, <<"q">>, <<"q", "u", "i", "t">>,
      <<"e", "x", "i", "t">>,
      <<"K">>, <<" ", "a", " ">>, <<"\t", "Q">>, <<" ">>,
      <<"N", "e", "x", "t">>,
      <<"x">>, <<"k", "k">>, <<"a", " ", "a">>, <<"h", "e", "l", "p">> }

\* What a call of input() can produce: a line, KeyboardInterrupt (Ctrl-C)
\* or EOFError (Ctrl-D, or standard input closed or exhausted).
InputEvents ==
    {[kind |-> "line", line |-> l] : l \in LineInputs}
        \cup {[kind |-> "interrupt"], [kind |-> "eof"]}

\* random.choice(NOTE_NAMES_SHARP) and random.randint(1, 12), sampled.
SessionNotes == {"C", "G#"}

SessionFrets == {1, 7, 12}

\* main() up to its loop: the welcome text and input(); neither exception
\* is caught there.
Welcome ==
    /\ pc = "idle"
    /\ \E event \in InputEvents :
        /\ last_input' = event
        /\ pc' = IF event.kind = "line" THEN "main_loop"
                 ELSE IF event.kind = "interrupt" THEN "keyboard_interrupt"
                 ELSE "eof_error"
    /\ UNCHANGED <<fretboard, triad_vars, answer_vars,
                   show_key, show_position, show_shape>>

\* One turn of main()'s loop up to the session's first prompt: the challenge
\* is drawn and interactive_practice_session starts with the flags False;
\* last_input is the last thing read in the running session.
StartSession ==
    /\ pc \in {"main_loop", "returned_true"}
    /\ mode' \in ToSet(MODES)
    /\ note' \in SessionNotes
    /\ target_fret' \in SessionFrets
    /\ show_key' = FALSE
    /\ show_position' = FALSE
    /\ show_shape' = FALSE
    /\ last_input' = [kind |-> "none"]
    /\ pc' = "prompt"
    /\ UNCHANGED <<fretboard, triad_vars, position, parent_key, plan_start,
                   xyz_layout>>

\* One pass of the `while True` body from input("\nYour choice: ") on.
SessionInput ==
    /\ pc = "prompt"
    /\ \E event \in InputEvents :
        /\ last_input' = event
        /\ IF event.kind = "interrupt"
           THEN /\ pc' = "returned_false"
                /\ UNCHANGED <<show_key, show_position, show_shape>>
           ELSE IF event.kind = "eof"
           THEN /\ pc' = "eof_error"
                /\ UNCHANGED <<show_key, show_position, show_shape>>
           ELSE LET response == response_of(event.line)
                IN  IF response = <<"k">>
                    THEN /\ show_key' = ~show_key
                         /\ pc' = "prompt"
                         /\ UNCHANGED <<show_position, show_shape>>
                    ELSE IF response = <<"p">>
                    THEN /\ show_position' = ~show_position
                         /\ pc' = "prompt"
                         /\ UNCHANGED <<show_key, show_shape>>
                    ELSE IF response = <<"s">>
                    THEN /\ show_shape' = ~show_shape
                         /\ pc' = "prompt"
                         /\ UNCHANGED <<show_key, show_position>>
                    ELSE IF response = <<"a">>
                    THEN LET new_state ==
                                all_new_state(show_key, show_position,
                                              show_shape)
                         IN  /\ show_key' = new_state
                             /\ show_position' = new_state
                             /\ show_shape' = new_state
                             /\ pc' = "prompt"
                    ELSE IF response \in {<<>>, <<"n">>,
                                          <<"n", "e", "x", "t">>}
                    THEN /\ pc' = "returned_true"
                         /\ UNCHANGED <<show_key, show_position, show_shape>>
                    ELSE IF response \in {<<"q">>, <<"q", "u", "i", "t">>,
                                          <<"e", "x", "i", "t">>}
                    THEN /\ pc' = "returned_false"
                         /\ UNCHANGED <<show_key, show_position, show_shape>>
                    ELSE /\ pc' = "invalid_pause"
                         /\ UNCHANGED <<show_key, show_position, show_shape>>
    /\ UNCHANGED <<fretboard, triad_vars, answer_vars>>

\* input("Press Enter to continue...") inside the same try block: any line
\* goes back to the prompt, KeyboardInterrupt returns False, EOFError is
\* not caught.
PressEnter ==
    /\ pc = "invalid_pause"
    /\ \E event \in InputEvents :
        /\ last_input' = event
        /\ pc' = IF event.kind = "line" THEN "prompt"
                 ELSE IF event.kind = "interrupt" THEN "returned_false"
                 ELSE "eof_error"
    /\ UNCHANGED <<fretboard, triad_vars, answer_vars,
                   show_key, show_position, show_shape>>

\* if not continue_practicing: print("\nGoodbye!"); break
Goodbye ==
    /\ pc = "returned_false"
    /\ pc' = "exited"
    /\ UNCHANGED <<fretboard, triad_vars, answer_vars, session_vars>>

NextSession ==
    \/ Welcome
    \/ StartSession
    \/ SessionInput
    \/ PressEnter
    \/ Goodbye

SpecSession == Init /\ [][NextSession]_vars

\* ------------------------------------------------------------------------
\* Reading the state
\* ------------------------------------------------------------------------

\* A request with the default max_stretch has been answered.
DoneDefault == pc = "done" /\ max_stretch = DEFAULT_MAX_STRETCH

Frets(group) == [i \in 1..Len(group) |-> group[i].frets]

Notes(group) == [i \in 1..Len(group) |-> group[i].notes]

Inversions(group) == [i \in 1..Len(group) |-> group[i].inversion]

\* max(frets) - min(frets)
Span(frets) ==
    PyMax(PyMax(frets[1], frets[2]), frets[3])
        - PyMin(PyMin(frets[1], frets[2]), frets[3])

\* ------------------------------------------------------------------------
\* Properties
\* ------------------------------------------------------------------------

\* C1: for every root key, the coordinated selection over the enumerator's
\* four lists (max_stretch 5) has exactly 4 groups of exactly 4 voicings,
\* and the i-th voicing of each group carries position label i.
C1_FourByFourLabelled ==
    DoneDefault =>
        /\ Len(selected) = 4
        /\ \A g \in 1..4 :
            /\ Len(selected[g]) = 4
            /\ \A i \in 1..4 : selected[g][i].position = i - 1

C1_Witness ==
    /\ DoneDefault
    /\ key = "B"
    /\ Len(chains) >= 4
    /\ Len(selected) = 4
    /\ selected[4][4].position = 3

\* C2: for every root key, every position p and every adjacent pair of
\* groups g, g+1, the position-p voicings of the two groups have the same
\* pitch class and the same fret on their two shared strings.
C2_AdjacentGroupsShare ==
    DoneDefault =>
        \A g \in 1..3 : \A p \in 1..4 :
            LET a == selected[g][p]
                b == selected[g + 1][p]
            IN  /\ a.strings[2] = b.strings[1] /\ a.strings[3] = b.strings[2]
                /\ a.notes[2] = b.notes[1] /\ a.notes[3] = b.notes[2]
                /\ a.frets[2] = b.frets[1] /\ a.frets[3] = b.frets[2]

C2_Witness ==
    /\ DoneDefault
    /\ key = "E"
    /\ selected[3][1].frets = <<2, 1, 0>>
    /\ selected[4][1].frets = <<1, 0, 0>>

\* C3: for every root key and every group, positions 0 and 3 have the same
\* inversion type and positions 1 and 2 have the two other types, one each.
C3_InversionLayout ==
    DoneDefault =>
        \A g \in 1..4 :
            LET inv == Inversions(selected[g])
            IN  /\ inv[1] = inv[4]
                /\ inv[2] # inv[3]
                /\ {inv[2], inv[3]} = ToSet(inversion_types) \ {inv[1]}

C3_Witness ==
    /\ DoneDefault
    /\ key = "C"
    /\ Inversions(selected[1]) = <<"second", "root", "first", "second">>
    /\ Inversions(selected[2]) = <<"root", "first", "second", "root">>

\* C4: for every root key, the fret triples within each group of the
\* coordinated selection are pairwise distinct.
C4_NoDuplicateFrets ==
    DoneDefault =>
        \A g \in 1..Len(selected) :
            \A i, j \in 1..Len(selected[g]) :
                i # j => selected[g][i].frets # selected[g][j].frets

C4_Witness ==
    /\ DoneDefault
    /\ key = "F#"
    /\ Len(selected[1]) = 4
    /\ Cardinality(ToSet(Frets(selected[1]))) = 4

\* C5: every enumerated voicing has exactly the triad's three pitch classes
\* (none foreign, none omitted, none doubled) and each note is
\* fretboard[string][fret] of its string and fret.
C5_TriadClosure ==
    \A g \in 1..Len(all_group_voicings) :
        \A i \in 1..Len(all_group_voicings[g]) :
            LET v == all_group_voicings[g][i]
            IN  /\ ToSet(v.notes) = ToSet(triad_pcs)
                /\ Cardinality(ToSet(v.notes)) = 3
                /\ v.strings = STRING_GROUPS[g]
                /\ \A n \in 1..3 :
                    v.notes[n] = (STRING_TUNING_MIDI[v.strings[n] + 1]
                                    + v.frets[n]) % 12
                /\ \A n \in 1..3 :
                    v.notes[n] = fretboard[v.strings[n]][v.frets[n]]

C5_Witness ==
    /\ pc = "select"
    /\ \A g \in 1..4 : Len(all_group_voicings[g]) >= 4
    /\ \E i \in 1..Len(all_group_voicings[4]) :
        all_group_voicings[4][i].frets = <<0, 1, 0>>

\* C6: every enumerated voicing spans at most max_stretch frets, and every
\* fret triple in 0..20 on the group's strings whose pitch classes form
\* exactly the triad set and whose span is at most max_stretch is returned
\* exactly once.
C6_StretchBoundAndComplete ==
    \A g \in 1..Len(all_group_voicings) :
        LET sg == STRING_GROUPS[g]
            returned == Frets(all_group_voicings[g])
            pitch(n, f) == (STRING_TUNING_MIDI[sg[n] + 1] + f) % 12
        IN  /\ \A i \in 1..Len(returned) : Span(returned[i]) <= max_stretch
            /\ \A f1, f2, f3 \in 0..20 :
                (/\ Span(<<f1, f2, f3>>) <= max_stretch
                 /\ {pitch(1, f1), pitch(2, f2), pitch(3, f3)}
                        = ToSet(triad_pcs))
                => Cardinality({i \in 1..Len(returned) :
                                    returned[i] = <<f1, f2, f3>>}) = 1

\* a voicing whose span equals max_stretch has been returned
C6_Witness ==
    /\ pc = "select"
    /\ max_stretch = DEFAULT_MAX_STRETCH
    /\ \E i \in 1..Len(all_group_voicings[1]) :
        Span(all_group_voicings[1][i].frets) = max_stretch

\* C7: find_voicing_chains returns exactly the 4-tuples, one voicing per
\* group in order, whose adjacent members agree in pitch class and fret on
\* their 2 shared strings.
Continuous(a, b) ==
    /\ a.notes[2] = b.notes[1] /\ a.notes[3] = b.notes[2]
    /\ a.frets[2] = b.frets[1] /\ a.frets[3] = b.frets[2]

C7_ChainsExact ==
    pc = "done" =>
        /\ \A c \in 1..Len(chains) :
            /\ Len(chains[c]) = 4
            /\ \A g \in 1..4 : chains[c][g] \in ToSet(all_group_voicings[g])
            /\ \A g \in 1..3 : Continuous(chains[c][g], chains[c][g + 1])
        /\ \A v0 \in ToSet(all_group_voicings[1]),
              v1 \in ToSet(all_group_voicings[2]) :
            Continuous(v0, v1) =>
                \A v2 \in ToSet(all_group_voicings[3]) :
                    Continuous(v1, v2) =>
                        \A v3 \in ToSet(all_group_voicings[4]) :
                            Continuous(v2, v3) =>
                                <<v0, v1, v2, v3>> \in ToSet(chains)

\* chains were found among lists in which most pairs are not continuous
C7_Witness ==
    /\ pc = "done"
    /\ Len(chains) >= 5
    /\ Len(all_group_voicings[1]) > Len(chains)

\* C8: for C major the coordinated selection is the fixture of the tests.
C8_CMajorFixture ==
    (DoneDefault /\ key = "C") =>
        /\ Frets(selected[1]) =
            << <<3, 3, 2>>, <<8, 7, 5>>, <<12, 10, 10>>, <<15, 15, 14>> >>
        /\ Frets(selected[2]) =
            << <<3, 2, 0>>, <<7, 5, 5>>, <<10, 10, 9>>, <<15, 14, 12>> >>
        /\ Frets(selected[3]) =
            << <<2, 0, 1>>, <<5, 5, 5>>, <<10, 9, 8>>, <<14, 12, 13>> >>
        /\ Frets(selected[4]) =
            << <<0, 1, 0>>, <<5, 5, 3>>, <<9, 8, 8>>, <<12, 13, 12>> >>
        /\ Notes(selected[1]) =
            << <<7, 0, 4>>, <<0, 4, 7>>, <<4, 7, 0>>, <<7, 0, 4>> >>
        /\ Notes(selected[2]) =
            << <<0, 4, 7>>, <<4, 7, 0>>, <<7, 0, 4>>, <<0, 4, 7>> >>
        /\ Notes(selected[3]) =
            << <<4, 7, 0>>, <<7, 0, 4>>, <<0, 4, 7>>, <<4, 7, 0>> >>
        /\ Notes(selected[4]) =
            << <<7, 0, 4>>, <<0, 4, 7>>, <<4, 7, 0>>, <<7, 0, 4>> >>
        /\ Inversions(selected[1]) = <<"second", "root", "first", "second">>
        /\ Inversions(selected[2]) = <<"root", "first", "second", "root">>
        /\ Inversions(selected[3]) = <<"first", "second", "root", "first">>
        /\ Inversions(selected[4]) = <<"second", "root", "first", "second">>
        /\ \A g \in 1..4 : \A i \in 1..4 : selected[g][i].position = i - 1

C8_Witness ==
    /\ DoneDefault
    /\ key = "C"
    /\ triad_pcs = <<0, 4, 7>>
    /\ Len(chains) = 5
    /\ selected[4][1].frets = <<0, 1, 0>>

\* C9: for G major the coordinated selection has, at positions 0..3, the
\* fixture's fret triples and notes in group 0 and in group 3.
C9_GMajorGroups0And3 ==
    (DoneDefault /\ key = "G") =>
        /\ Frets(selected[1]) =
            << <<3, 2, 0>>, <<7, 5, 5>>, <<10, 10, 9>>, <<15, 14, 12>> >>
        /\ Notes(selected[1]) =
            << <<7, 11, 2>>, <<11, 2, 7>>, <<2, 7, 11>>, <<7, 11, 2>> >>
        /\ Frets(selected[4]) =
            << <<4, 3, 3>>, <<7, 8, 7>>, <<12, 12, 10>>, <<16, 15, 15>> >>
        /\ Notes(selected[4]) =
            << <<11, 2, 7>>, <<2, 7, 11>>, <<7, 11, 2>>, <<11, 2, 7>> >>

\* C10: for G major, group 2 position 0 of the coordinated selection is
\* the all-open voicing, frets [0,0,0] with pitch classes [2,7,11].
C10_GMajorGroup2Open ==
    (DoneDefault /\ key = "G") =>
        /\ selected[3][1].frets = <<0, 0, 0>>
        /\ selected[3][1].notes = <<2, 7, 11>>

\* C11: for G major, the voicing labelled position 1 in group 1 (strings
\* A-D-G) of the coordinated selection has frets [5,5,4].
C11_GMajorGroup1Pos1 ==
    (DoneDefault /\ key = "G") =>
        \A i \in 1..Len(selected[2]) :
            selected[2][i].position = 1 =>
                selected[2][i].frets = <<5, 5, 4>>

\* C12: the coordinated selection always has 4 groups of exactly 4 tagged
\* voicings, also when fewer than 4 chains exist, when no chain matches
\* position 0's inversion, or when a group holds fewer than 4 voicings.
C12_AlwaysFourByFour ==
    pc = "done" =>
        /\ Len(selected) = 4
        /\ \A g \in 1..4 :
            /\ Len(selected[g]) = 4
            /\ \A i \in 1..4 : "position" \in DOMAIN selected[g][i]

C14_FretsAtMost18 ==
    DoneDefault =>
        \A g \in 1..Len(selected) : \A i \in 1..Len(selected[g]) :
            \A n \in 1..3 : selected[g][i].frets[n] \in 0..18

\* C15: for each of the 12 root keys and in every group of the coordinated
\* selection, the position-0 voicing's sum of frets (3 * avg_fret) is
\* strictly lower than the position-3 voicing's.
C15_Pos0BelowPos3 ==
    DoneDefault =>
        \A g \in 1..Len(selected) : \A i, j \in 1..Len(selected[g]) :
            (selected[g][i].position = 0 /\ selected[g][j].position = 3)
                => selected[g][i].avg_fret < selected[g][j].avg_fret

\* a key whose position-3 voicing is not the highest of its group
C15_Witness ==
    /\ DoneDefault
    /\ key = "E"
    /\ selected[1][1].position = 0 /\ selected[1][4].position = 3
    /\ selected[1][1].avg_fret = 8
    /\ selected[1][4].avg_fret = 44
    /\ selected[1][3].avg_fret > selected[1][4].avg_fret

\* C16: for G major, in every group of the coordinated selection avg_fret
\* is non-decreasing along the position labels 0, 1, 2, 3.
C16_GMajorAscending ==
    (DoneDefault /\ key = "G") =>
        \A g \in 1..Len(selected) : \A i, j \in 1..Len(selected[g]) :
            selected[g][j].position = selected[g][i].position + 1
                => selected[g][i].avg_fret <= selected[g][j].avg_fret

\* The tests' call of select_4_positions on each enumerated list (default
\* max_stretch) has returned.
DoneIndependent ==
    pc = "done_independent" /\ max_stretch = DEFAULT_MAX_STRETCH

\* C17: for each of the 12 root keys and each of the 4 string groups,
\* select_4_positions on the enumerator's output returns exactly 4
\* voicings whose position labels are 0, 1, 2, 3 in list order.
C17_IndependentFourLabelled ==
    DoneIndependent =>
        \A g \in 1..4 :
            /\ Len(selected[g]) = 4
            /\ \A i \in 1..4 : selected[g][i].position = i - 1

C17_Witness ==
    /\ DoneIndependent
    /\ key = "C"
    /\ Len(all_group_voicings[3]) > 4
    /\ Frets(selected[3]) =
        << <<2, 0, 1>>, <<10, 9, 8>>, <<17, 17, 17>>, <<14, 12, 13>> >>
    /\ selected[3][4].position = 3

\* C18: for every key and string group, the voicings select_4_positions
\* returns are in ascending avg_fret order: each returned voicing's
\* avg_fret is <= that of the next one.
C18_IndependentAscending ==
    DoneIndependent =>
        \A g \in 1..Len(selected) : \A i \in 1..(Len(selected[g]) - 1) :
            selected[g][i].avg_fret <= selected[g][i + 1].avg_fret

\* The pitch class the challenge's note names.
Wanted == CHOOSE p \in 0..11 : NOTE_NAMES_SHARP[p + 1] = note

\* |fret - target_fret|
Distance(fret) ==
    IF fret >= target_fret THEN fret - target_fret ELSE target_fret - fret

C21_ParentMajor ==
    pc = "answered" =>
        LET offset ==
                CASE mode = "Ionian"     -> 0
                  [] mode = "Dorian"     -> 2
                  [] mode = "Phrygian"   -> 4
                  [] mode = "Lydian"     -> 5
                  [] mode = "Mixolydian" -> 7
                  [] mode = "Aeolian"    -> 9
                  [] mode = "Locrian"    -> 11
        IN  /\ parent_key = NOTE_NAMES_SHARP[((Wanted + 12 - offset) % 12) + 1]
            /\ (mode = "Dorian" /\ note = "D") => parent_key = "C"

C21_Witness ==
    /\ pc = "answered"
    /\ mode = "Dorian"
    /\ note = "D"
    /\ parent_key = "C"

\* A plan has been computed (by get_answer or by a direct call).
Planned == pc \in {"answered", "planned"}

LayoutFrets == [k \in 1..Len(xyz_layout) |-> xyz_layout[k][2]]

LayoutSymbols == [k \in 1..Len(xyz_layout) |-> xyz_layout[k][3]]

\* C22: for each of the 7 modes the 6-symbol window over the circular base
\* XXXYYZZ is the fixture: Ionian XXYYZZ, Dorian ZXXXYY, Phrygian YZZXXX,
\* Lydian XYYZZX, Mixolydian XXXYYZ, Aeolian ZZXXXY, Locrian YYZZXX.
C22_WindowFixture ==
    Planned =>
        LayoutSymbols =
            CASE mode = "Ionian"     -> <<"X", "X", "Y", "Y", "Z", "Z">>
              [] mode = "Dorian"     -> <<"Z", "X", "X", "X", "Y", "Y">>
              [] mode = "Phrygian"   -> <<"Y", "Z", "Z", "X", "X", "X">>
              [] mode = "Lydian"     -> <<"X", "Y", "Y", "Z", "Z", "X">>
              [] mode = "Mixolydian" -> <<"X", "X", "X", "Y", "Y", "Z">>
              [] mode = "Aeolian"    -> <<"Z", "Z", "X", "X", "X", "Y">>
              [] mode = "Locrian"    -> <<"Y", "Y", "Z", "Z", "X", "X">>

\* the window that wraps around the end of the base
C22_Witness ==
    /\ Planned
    /\ mode = "Dorian"
    /\ MODE_TO_START[mode] + WINDOW_LEN > Len(XYZ_BASE)
    /\ LayoutSymbols = <<"Z", "X", "X", "X", "Y", "Y">>

\* C23: plan_xyz_positions(mode, s, f) has one entry per string 0..5 in
\* order with the mode's window symbols; the entry of string s has fret f;
\* for every adjacent pair of strings i, i+1 the fret of string i+1 is the
\* fret of string i minus 1 if the symbols go X then Y there and minus 1
\* more if i = 3, on either side of s; so the plan restarted from any of
\* its own entries is the same plan.
C23_PlanShifts ==
    Planned =>
        /\ Len(xyz_layout) = 6
        /\ \A k \in 1..6 : xyz_layout[k][1] = k - 1
        /\ LayoutSymbols = xyz_window_for_mode(mode)
        /\ LayoutFrets[plan_start[1] + 1] = plan_start[2]
        /\ \A i \in 0..4 :
            LayoutFrets[i + 2] =
                LayoutFrets[i + 1]
                    - (IF LayoutSymbols[i + 1] = "X"
                            /\ LayoutSymbols[i + 2] = "Y" THEN 1 ELSE 0)
                    - (IF i = 3 THEN 1 ELSE 0)
        /\ \A s \in 0..5 :
            plan_xyz_positions(mode, s, LayoutFrets[s + 1]) = xyz_layout

\* a plan started on the highest string: the X-to-Y boundary (strings 1, 2)
\* and the G-to-B boundary both lie below the start
C23_Witness ==
    /\ pc = "planned"
    /\ mode = "Ionian"
    /\ plan_start = <<5, 7>>
    /\ LayoutFrets = <<9, 9, 8, 8, 7, 7>>

\* C24: build_major_triad("C") is [0,4,7]; for C major the enumerator's
\* list for strings [3,4,5] contains the voicing with frets [0,1,0], pitch
\* classes [7,0,4] and inversion "second"; every enumerated voicing's
\* inversion is "root", "first" or "second" according to whether its
\* lowest-string note is the triad's root, third or fifth, never "unknown".
C24_InversionByLowestNote ==
    /\ (key = "C" /\ pc \in {"enumerate", "select", "done"})
            => triad_pcs = <<0, 4, 7>>
    /\ (key = "C" /\ pc = "select" /\ max_stretch >= Span(<<0, 1, 0>>)) =>
        \E i \in 1..Len(all_group_voicings[4]) :
            LET v == all_group_voicings[4][i]
            IN  /\ v.strings = <<3, 4, 5>>
                /\ v.frets = <<0, 1, 0>>
                /\ v.notes = <<7, 0, 4>>
                /\ v.inversion = "second"
    /\ \A g \in 1..Len(all_group_voicings) :
        \A i \in 1..Len(all_group_voicings[g]) :
            LET v == all_group_voicings[g][i]
            IN  /\ v.inversion \in {"root", "first", "second"}
                /\ v.inversion = "root"   <=> v.notes[1] = triad_pcs[1]
                /\ v.inversion = "first"  <=> v.notes[1] = triad_pcs[2]
                /\ v.inversion = "second" <=> v.notes[1] = triad_pcs[3]

\* C major's four lists are complete and hold all three inversion types
C24_Witness ==
    /\ pc = "select"
    /\ key = "C"
    /\ max_stretch = DEFAULT_MAX_STRETCH
    /\ {all_group_voicings[4][i].inversion :
            i \in 1..Len(all_group_voicings[4])} = ToSet(inversion_types)

\* A selected voicing as the enumerator made it (the position tag removed).
Untagged(v) == [f \in DOMAIN v \ {"position"} |-> v[f]]

\* The chain the coordinated selection shows at position label p.
SelectedChain(p) ==
    [g \in 1..4 |->
        Untagged(selected[g][CHOOSE i \in 1..Len(selected[g]) :
                                selected[g][i].position = p])]

\* 12 * (mean avg_fret of a chain's four voicings)
ChainMean(c) == c[1].avg_fret + c[2].avg_fret + c[3].avg_fret + c[4].avg_fret

\* The chains whose group-0 voicing has inversion inv.
Bucket(inv) == {c \in ToSet(chains) : c[1].inversion = inv}

\* c stands at 0-based index idx of an ascending ordering of bucket b.
AtSortedIndex(c, b, idx) ==
    /\ c \in b
    /\ Cardinality({d \in b : ChainMean(d) < ChainMean(c)}) <= idx
    /\ idx < Cardinality({d \in b : ChainMean(d) <= ChainMean(c)})

\* C26: when at least 4 chains exist, position 0 is a chain of minimal mean
\* avg_fret over all chains, position 3 a chain of maximal mean avg_fret
\* among the chains with position 0's group-0 inversion, position 1 the
\* chain at index min(len-1, len//3) of the ascending bucket of the first
\* non-paired inversion and position 2 the chain at index len*2//3 of the
\* bucket of the second (order root, first, second); both indices lie
\* within their bucket.
C26_ChainChoice ==
    (pc = "done" /\ Len(chains) >= 4) =>
        /\ \A g \in 1..4 : \A p \in 0..3 :
            \E i \in 1..Len(selected[g]) : selected[g][i].position = p
        /\ LET c0 == SelectedChain(0)
               c3 == SelectedChain(3)
               paired == c0[1].inversion
               others == SelectSeq(<<"root", "first", "second">>,
                                   LAMBDA inv : inv # paired)
               n1 == Cardinality(Bucket(others[1]))
               n2 == Cardinality(Bucket(others[2]))
           IN  /\ c0 \in ToSet(chains)
               /\ \A c \in ToSet(chains) : ChainMean(c0) <= ChainMean(c)
               /\ c3 \in Bucket(paired)
               /\ \A c \in Bucket(paired) : ChainMean(c) <= ChainMean(c3)
               /\ n1 >= 1 /\ PyMin(n1 - 1, n1 \div 3) < n1
               /\ AtSortedIndex(SelectedChain(1), Bucket(others[1]),
                                PyMin(n1 - 1, n1 \div 3))
               /\ n2 >= 1 /\ (n2 * 2) \div 3 < n2
               /\ AtSortedIndex(SelectedChain(2), Bucket(others[2]),
                                (n2 * 2) \div 3)

\* v stands at 0-based index idx of an ascending (by avg_fret) ordering of
\* the set b of voicings.
VoicingAtSortedIndex(v, b, idx) ==
    /\ v \in b
    /\ Cardinality({w \in b : w.avg_fret < v.avg_fret}) <= idx
    /\ idx < Cardinality({w \in b : w.avg_fret <= v.avg_fret})

\* round(x / 4) for a natural x, halves going to the even neighbour.
RoundQuarter(x) ==
    LET q == x \div 4
        r == x % 4
    IN  IF r < 2 THEN q
        ELSE IF r > 2 THEN q + 1
        ELSE IF q % 2 = 0 THEN q ELSE q + 1

\* select_4_positions returned r for the list vs as C27 lays it out.
FollowsSelectorSteps(vs, r) ==
    LET all == ToSet(vs)
        n == Len(vs)
        of(inv) == {v \in all : v.inversion = inv}
        low(b) == CHOOSE x \in {v.avg_fret : v \in b} :
                        \A v \in b : x <= v.avg_fret
        high(b) == CHOOSE x \in {v.avg_fret : v \in b} :
                        \A v \in b : v.avg_fret <= x
        span(inv) == IF of(inv) = {} THEN 0 ELSE high(of(inv)) - low(of(inv))
        widest == CHOOSE x \in {span(inv) : inv \in {"root", "first", "second"}} :
                        \A inv \in {"root", "first", "second"} : span(inv) <= x
    IN  IF n <= 4
        THEN /\ Len(r) = n
             /\ \A i \in 1..n :
                    /\ r[i].position = i - 1
                    /\ VoicingAtSortedIndex(Untagged(r[i]), all, i - 1)
        ELSE IF widest >= 3 * 3
        THEN /\ Len(r) = 4
             /\ \A i \in 1..4 : r[i].position = i - 1
             /\ LET paired == r[1].inversion
                    others == SelectSeq(<<"root", "first", "second">>,
                                        LAMBDA inv : inv # paired)
                    n1 == Cardinality(of(others[1]))
                    n2 == Cardinality(of(others[2]))
                IN  /\ span(paired) = widest
                    /\ Untagged(r[1]) \in of(paired)
                    /\ r[1].avg_fret = low(of(paired))
                    /\ Untagged(r[4]) \in of(paired)
                    /\ r[4].avg_fret = high(of(paired))
                    /\ VoicingAtSortedIndex(Untagged(r[2]), of(others[1]),
                                            PyMin(n1 - 1, n1 \div 3))
                    /\ VoicingAtSortedIndex(Untagged(r[3]), of(others[2]),
                                            (n2 * 2) \div 3)
        ELSE /\ Len(r) = 4
             /\ \A k \in 0..3 :
                    /\ r[k + 1].position = k
                    /\ VoicingAtSortedIndex(Untagged(r[k + 1]), all,
                                            RoundQuarter(k * (n - 1)))

\* C27: select_4_positions returns, for at most 4 voicings, all of them
\* sorted by avg_fret and tagged 0..n-1; for more than 4, with the paired
\* inversion the one of largest avg_fret range and that range at least 3
\* frets, position 0 = lowest and position 3 = highest voicing of the paired
\* inversion, position 1 = index min(len-1, len//3) of the first non-paired
\* inversion's sorted list, position 2 = index len*2//3 of the second's;
\* with no inversion spanning 3 frets, the sorted voicings at indices
\* round(k(n-1)/4), k = 0..3.
C27_SelectorSteps ==
    pc = "done_independent" =>
        \A g \in 1..4 :
            FollowsSelectorSteps(all_group_voicings[g], selected[g])

\* B major on the short board at max_stretch 8: strings D-G-B have 5 voicings
\* none of whose inversions spans 3 frets (indices 0, 1, 2, 3 are returned),
\* and another group of the same answer has a paired inversion
C27_Witness ==
    /\ pc = "done_independent"
    /\ fretboard = short_fretboard
    /\ key = "B"
    /\ Frets(all_group_voicings[3]) =
        << <<1, 4, 7>>, <<4, 4, 4>>, <<4, 8, 0>>, <<9, 8, 7>>, <<9, 11, 4>> >>
    /\ Frets(selected[3]) =
        << <<1, 4, 7>>, <<4, 4, 4>>, <<4, 8, 0>>, <<9, 8, 7>> >>
    /\ \E g \in 1..4 :
        /\ Len(all_group_voicings[g]) > 4
        /\ selected[g][1].inversion = selected[g][4].inversion
        /\ selected[g][4].avg_fret - selected[g][1].avg_fret >= 3 * 3

\* C28: once at least 4 chains exist the search for the position-3 chain
\* succeeds (the position-0 chain itself has the paired inversion): the
\* answer is then made of discovered chains, one per position, the last of
\* the paired inversion, and never of the independent per-group selection.
C28_Pos3AlwaysFound ==
    (pc = "done" /\ Len(chains) >= 4) =>
        /\ select_chains(chains) # <<>>
        /\ Len(selected[1]) >= 1
        /\ \A g \in 1..4 : Len(selected[g]) = Len(selected[1])
        /\ \A p \in 0..(Len(selected[1]) - 1) :
                SelectedChain(p) \in ToSet(chains)
        /\ selected[1][Len(selected[1])].inversion = selected[1][1].inversion

\* the smallest case: exactly 4 chains, and the chain found for position 3
\* is another chain than the one at position 0
C28_Witness ==
    /\ pc = "done"
    /\ Len(chains) = 4
    /\ Len(selected[1]) >= 2
    /\ SelectedChain(Len(selected[1]) - 1) # SelectedChain(0)
    /\ SelectedChain(Len(selected[1]) - 1)[1].inversion
            = SelectedChain(0)[1].inversion

\* C29: for every key, at max_stretch 5 on the standard fretboard, chain
\* discovery yields at least 4 chains and at least one chain for each of the
\* three group-0 inversions, and the answer of get_triads is made of chains
\* (four of them, one per position), not of the independent per-group
\* fallback.
C29_DefaultUsesChains ==
    DoneDefault =>
        /\ fretboard = build_fretboard
        /\ Len(chains) >= 4
        /\ \A inv \in {"root", "first", "second"} : Bucket(inv) # {}
        /\ select_chains(chains) # <<>>
        /\ selected = chains_to_groups(select_chains(chains))
        /\ \A g \in 1..4 : Len(selected[g]) = 4
        /\ \A p \in 0..3 : SelectedChain(p) \in ToSet(chains)

\* G# major: the threshold is just met (4 chains: two first-inversion, one
\* root, one second), and the last string group has only 4 voicings
C29_Witness ==
    /\ DoneDefault
    /\ key = "G#"
    /\ Len(chains) = 4
    /\ Cardinality(Bucket("first")) = 2
    /\ Cardinality(Bucket("root")) = 1
    /\ Cardinality(Bucket("second")) = 1
    /\ \A p \in 0..3 : SelectedChain(p) \in ToSet(chains)

\* The session has ended, by a return or by an exception leaving it.
SessionEnded == {"returned_true", "returned_false", "eof_error"}

\* The step reads a line at the "Your choice" prompt whose response
\* (stripped, lower-cased) is r.
Answers(r) ==
    /\ pc = "prompt"
    /\ last_input'.kind = "line"
    /\ response_of(last_input'.line) = r

\* C25: whatever the three flags are when 'a' is entered, 'a' sets all three
\* to True unless all three were True, and then sets all three to False; the
\* three flags are equal afterwards and the session goes on.
C25_AllToggle ==
    [][Answers(<<"a">>) =>
        /\ show_key' = ~(show_key /\ show_position /\ show_shape)
        /\ show_position' = show_key'
        /\ show_shape' = show_key'
        /\ pc' = "prompt"]_vars

\* 'a' has just been entered (as " a ") and the three flags are off: they
\* were all on before, which takes 'k', 'p', 's' or an earlier 'a'
C25_Witness ==
    /\ pc = "prompt"
    /\ last_input = [kind |-> "line", line |-> <<" ", "a", " ">>]
    /\ ~show_key
    /\ ~show_position
    /\ ~show_shape

\* C30: 'k', 'p', 's' flip exactly their own flag; an unrecognised input
\* leaves the three flags unchanged and keeps the session running; the
\* session ends only on '', 'n', 'next' (returning True) or on 'q', 'quit',
\* 'exit' or a keyboard interrupt (returning False).
C30_SessionInputs ==
    [][/\ Answers(<<"k">>) =>
            /\ show_key' = ~show_key
            /\ UNCHANGED <<show_position, show_shape>>
       /\ Answers(<<"p">>) =>
            /\ show_position' = ~show_position
            /\ UNCHANGED <<show_key, show_shape>>
       /\ Answers(<<"s">>) =>
            /\ show_shape' = ~show_shape
            /\ UNCHANGED <<show_key, show_position>>
       /\ (pc = "prompt" /\ pc' = "invalid_pause") =>
            UNCHANGED <<show_key, show_position, show_shape>>
       /\ (pc \in {"prompt", "invalid_pause"} /\ pc' \in SessionEnded) =>
            \/ /\ pc' = "returned_true"
               /\ pc = "prompt"
               /\ last_input'.kind = "line"
               /\ response_of(last_input'.line)
                    \in {<<>>, <<"n">>, <<"n", "e", "x", "t">>}
            \/ /\ pc' = "returned_false"
               /\ \/ last_input'.kind = "interrupt"
                  \/ /\ pc = "prompt"
                     /\ last_input'.kind = "line"
                     /\ response_of(last_input'.line)
                          \in {<<"q">>, <<"q", "u", "i", "t">>,
                               <<"e", "x", "i", "t">>}]_vars

====
